---- MODULE Spec2Model ----
(***************************************************************************)
(* CodeAtlas backend: the changeset applier (app/api/changesets.py) and    *)
(* the snapshot build (app/indexer/engine.py, app/api/projects.py).        *)
(*                                                                         *)
(* Request handlers are coroutines of one asyncio event loop.  A handler   *)
(* runs without interruption from one `await` to the next; `running`       *)
(* names the coroutine that holds the loop inside a synchronous section    *)
(* that the model takes in several steps.                                  *)
(***************************************************************************)
EXTENDS Integers, Sequences, FiniteSets, TLC

NULL == "NULL"          \* SQL NULL in a column of strings
NONE == {}              \* no coroutine holds the event loop

(***************************************************************************)
(* Bounds of the model.                                                    *)
(***************************************************************************)
MaxChangesets == 2      \* changesets ever created
MaxPatches == 2         \* patches of one create request
MaxEvents == 4          \* requests received, out-of-band writes and
SeqRequests == 6        \* requests of a run that serves one request at a time
                        \* file operations that raise

(***************************************************************************)
(* Files.  A file's content is a sequence of bytes; "CR" and "LF" are the  *)
(* line-end bytes and "XX" is a byte that is not valid UTF-8.  A str is a  *)
(* sequence of characters.                                                 *)
(***************************************************************************)
ABSENT == <<"ABSENT">>  \* no file at the path (not a byte sequence)
NoText == <<"NULL">>    \* None where a str is expected (not a str)

Paths == {"p", "q"}
Reqs == {1, 2}
CsIds == 1..MaxChangesets

InitTrees ==
    { [path \in Paths |-> IF path = "p" THEN <<"a", "LF">> ELSE ABSENT],
      [path \in Paths |-> IF path = "p" THEN <<"a", "CR", "LF">> ELSE <<"a", "LF">>] }
ExternalContents == {ABSENT, <<"a", "CR", "LF">>, <<"XX">>}
NewContents == {<<"b">>}

\* Path.exists()
Exists(tree, path) == tree[path] # ABSENT

\* bytes.decode("utf-8") with errors="strict" succeeds
Decodable(bytes) == \A i \in 1..Len(bytes) : bytes[i] # "XX"

\* Text-mode read with newline=None: "\r\n" and "\r" become "\n".
RECURSIVE UniversalNewlines(_)
UniversalNewlines(s) ==
    IF s = <<>> THEN <<>>
    ELSE IF Head(s) = "CR"
         THEN IF Len(s) >= 2 /\ s[2] = "LF"
              THEN <<"LF">> \o UniversalNewlines(SubSeq(s, 3, Len(s)))
              ELSE <<"LF">> \o UniversalNewlines(Tail(s))
         ELSE <<Head(s)>> \o UniversalNewlines(Tail(s))

\* Path.read_text(encoding="utf-8") of a decodable file
ReadText(bytes) == UniversalNewlines(bytes)

\* Path.write_text(text, encoding="utf-8") on POSIX: os.linesep is "\n",
\* so the characters are written as they are.
WriteText(text) == text

\* A write_text or unlink that raises: open() failed and the file is as it
\* was, or the file was truncated by open() before the write failed.
FailedWrite(tree, path) ==
    {tree} \cup (IF Exists(tree, path) THEN {[tree EXCEPT ![path] = <<>>]} ELSE {})

(***************************************************************************)
(* Changesets.                                                             *)
(***************************************************************************)
PROPOSED == "proposed"
APPLIED == "applied"
ROLLED_BACK == "rolled_back"
REJECTED == "rejected"
ChangeSetStatus == {PROPOSED, APPLIED, ROLLED_BACK, REJECTED}

T == "T"                \* a datetime.now() value
\* The id of the commit that the handler in slot r made: git gives every
\* commit an id of its own.
SHA(r) == IF r = 1 THEN "sha1" ELSE "sha2"

VARIABLES
    fs,          \* working tree: path -> bytes or ABSENT
    cs,          \* changesets table (committed rows)
    patches,     \* patches table: changeset id -> patches in `order`
    req,         \* the request each handler slot is serving
    running,     \* the coroutine inside a synchronous section, {r} or NONE
    response,    \* the response sent by the last step, if any
    base,        \* history: the tree at the Create and at the Apply of each changeset
    wasApplied,  \* history: changesets that were APPLIED at some point
    events       \* requests received, out-of-band writes and faults so far

csVars == <<fs, cs, patches, req, running, response, base, wasApplied, events>>

\* The snapshots of the project and the build of one.
VARIABLES
    root,        \* what project.root_path names
    snaps,       \* snapshots table (committed rows)
    fileRows,    \* committed File rows of each snapshot
    issued,      \* snapshot ids handed out
    build,       \* the index_project call in progress
    outcome,     \* how the last index_project call ended
    everReady,   \* history: snapshots whose committed row was READY
    symbolRows,  \* committed Symbol rows
    progressLog  \* history: the values given to _report_progress by the last build

buildVars == <<root, snaps, fileRows, issued, build, outcome, everReady, symbolRows,
               progressLog>>

\* The inputs and results of the analyses run over a project.
VARIABLES
    projectTree,   \* the project directory compute_diff scans
    baseSnapshot,  \* the base snapshot and its File rows
    edited,        \* history: the change made to the tree since the build
    diff,          \* the IncrementalDiff last returned
    graph,         \* the Reference rows of the analysed snapshot
    changed,       \* the symbol ids given to _trace_impact
    trace,         \* the _trace_impact call in progress, and its result
    counts,        \* the four counts given to _calculate_risk
    risk,          \* the risk level last returned
    fileTable,     \* the File rows the session of copy_unchanged_files sees
    copyCall       \* the copy_unchanged_files call made, and what it returned

copyVars == <<fileTable, copyCall>>
analysisVars == <<projectTree, baseSnapshot, edited, diff, graph, changed, trace, counts, risk,
                  copyVars>>

vars == <<csVars, buildVars, analysisVars>>

NoRow == [exists |-> FALSE, status |-> NULL, applied_at |-> NULL,
          rolled_back_at |-> NULL, git_commit_sha |-> NULL]

\* op, changeset and position of a handler; k is its loop index, n the
\* number of patches written when a write raised, rfail the paths whose
\* reverse write raised, status and sha the session's copy of the row.
IdleReq == [op |-> "none", c |-> 0, pc |-> "idle", k |-> 0, n |-> 0,
            rfail |-> {}, status |-> NULL, sha |-> NULL]

NoResponse == [op |-> "none", c |-> 0, result |-> NULL]

\* The bodies of create requests: 1..MaxPatches patches, any paths.
PatchCreate == [file_path : Paths, new_content : NewContents]
PatchRequests == UNION {[1..n -> PatchCreate] : n \in 1..MaxPatches}

\* create_changeset's read of the original content of one patch
OriginalContent(tree, path) ==
    IF ~Exists(tree, path) THEN NoText
    ELSE IF Decodable(tree[path]) THEN ReadText(tree[path])
    ELSE <<>>

MakePatches(tree, request) ==
    [idx \in 1..Len(request) |->
        [file_path |-> request[idx].file_path,
         original_content |-> OriginalContent(tree, request[idx].file_path),
         new_content |-> request[idx].new_content,
         order |-> idx - 1]]

PatchedPaths(c) == {patches[c][i].file_path : i \in 1..Len(patches[c])}

Free(r) == req[r].pc = "idle"

\* A new request is served by the first free handler slot.
Slot(r) == Free(r) /\ \A q \in Reqs : q < r => ~Free(q)

\* The handler of r returns or raises: the slot is free again.
Reply(r, result) ==
    /\ req' = [req EXCEPT ![r] = IdleReq]
    /\ response' = [op |-> req[r].op, c |-> req[r].c, result |-> result]

\* A request is answered by the step that receives it.
Reject(op, c, result) ==
    /\ response' = [op |-> op, c |-> c, result |-> result]
    /\ UNCHANGED req

Silent == response' = NoResponse

\* History: a write to the tree that is not part of applying or rolling
\* back changeset c ends the "no other write" condition of every other
\* changeset.
NoBase == [state |-> "none", tree |-> [path \in Paths |-> ABSENT],
           created |-> [path \in Paths |-> ABSENT]]
Foreign(c) ==
    [d \in CsIds |-> IF d = c \/ base[d].state = "none" THEN base[d]
                     ELSE [base[d] EXCEPT !.state = "dirty", !.tree = NoBase.tree]]

CsInit ==
    /\ fs \in InitTrees
    /\ cs = [c \in CsIds |-> NoRow]
    /\ patches = [c \in CsIds |-> <<>>]
    /\ req = [r \in Reqs |-> IdleReq]
    /\ running = NONE
    /\ response = NoResponse
    /\ base = [c \in CsIds |-> NoBase]
    /\ wasApplied = {}
    /\ events = 0

\* A process outside the server writes or removes a file.  Taken between
\* handler steps: a write landing inside a synchronous section is either
\* overwritten by it or commutes to its end.
ExternalWrite(path, content) ==
    /\ running = NONE
    /\ events < MaxEvents
    /\ fs[path] # content
    /\ fs' = [fs EXCEPT ![path] = content]
    /\ events' = events + 1
    /\ base' = Foreign(0)
    /\ Silent
    /\ UNCHANGED <<cs, patches, req, running, wasApplied>>
    /\ UNCHANGED <<buildVars, analysisVars>>
\* POST /changesets.  The originals are read in one synchronous loop and
\* the rows become visible at the commit.
CreateChangeset(c, request) ==
    /\ running = NONE
    /\ \E r \in Reqs : Free(r)
    /\ events < MaxEvents
    /\ ~cs[c].exists /\ patches[c] = <<>>
    /\ \A d \in 1..(c - 1) : patches[d] # <<>>
    /\ cs' = [cs EXCEPT ![c] = [NoRow EXCEPT !.exists = TRUE, !.status = PROPOSED]]
    /\ patches' = [patches EXCEPT ![c] = MakePatches(fs, request)]
    /\ base' = [base EXCEPT ![c].created = fs]
    /\ Reject("create", c, "created")
    /\ events' = events + 1
    /\ UNCHANGED <<fs, running, wasApplied>>
    /\ UNCHANGED <<buildVars, analysisVars>>
(***************************************************************************)
(* POST /changesets/{id}/apply                                             *)
(***************************************************************************)
\* An apply that takes a changeset in any status.
ApplyAllowedAny(status) == TRUE
ApplyAllowed(status) == status = PROPOSED

\* The row is loaded and its status checked; the handler then awaits
\* get_project_path.
ApplyBegin(r, c) ==
    /\ running = NONE
    /\ Slot(r)
    /\ events < MaxEvents
    /\ patches[c] # <<>>
    /\ IF ~cs[c].exists THEN Reject("apply", c, "not_found")
       ELSE IF ~ApplyAllowed(cs[c].status) THEN Reject("apply", c, "invalid_state")
       ELSE /\ req' = [req EXCEPT ![r] = [IdleReq EXCEPT !.op = "apply", !.c = c,
                                          !.pc = "preflight", !.status = cs[c].status]]
            /\ Silent
    /\ events' = events + 1
    /\ UNCHANGED <<fs, cs, patches, running, base, wasApplied>>
    /\ UNCHANGED <<buildVars, analysisVars>>
\* The safety check of one patch.
PatchCheck(tree, patch) ==
    IF patch.original_content = NoText THEN "ok"
    ELSE IF ~Exists(tree, patch.file_path) THEN "conflict"
    ELSE IF ~Decodable(tree[patch.file_path]) THEN "decode_error"
    ELSE IF ReadText(tree[patch.file_path]) # patch.original_content THEN "conflict"
    ELSE "ok"

\* The check loop raises at the first patch that fails; the relationship
\* has no order_by, so that is any failing patch.
PreflightOutcomes(tree, ps) ==
    LET fails == {PatchCheck(tree, ps[i]) : i \in 1..Len(ps)} \ {"ok"}
    IN  IF fails = {} THEN {"ok"} ELSE fails

\* No await separates the check from the writes: the coroutine keeps the
\* event loop.
\* An apply that gives up the event loop between its check and its writes.
AfterPreflightYields(r) == NONE
AfterPreflight(r) == {r}

ApplyPreflight(r) ==
    /\ running = NONE
    /\ req[r].pc = "preflight"
    /\ \E out \in PreflightOutcomes(fs, patches[req[r].c]) :
         IF out = "ok"
         THEN /\ req' = [req EXCEPT ![r].pc = "write", ![r].k = 1]
              /\ running' = AfterPreflight(r)
              /\ base' = [Foreign(req[r].c) EXCEPT ![req[r].c] =
                            IF base[req[r].c].state = "none"
                            THEN [base[req[r].c] EXCEPT !.state = "set", !.tree = fs]
                            ELSE [base[req[r].c] EXCEPT !.state = "dirty",
                                                        !.tree = NoBase.tree]]
              /\ Silent
         ELSE /\ Reply(r, out)
              /\ UNCHANGED <<running, base>>
    /\ UNCHANGED <<fs, cs, patches, wasApplied, events>>
    /\ UNCHANGED <<buildVars, analysisVars>>
ApplyWriteOk(r) ==
    /\ running = {r}
    /\ req[r].pc = "write"
    /\ req[r].k <= Len(patches[req[r].c])
    /\ LET patch == patches[req[r].c][req[r].k]
       IN  fs' = [fs EXCEPT ![patch.file_path] = WriteText(patch.new_content)]
    /\ req' = [req EXCEPT ![r].k = @ + 1]
    /\ Silent
    /\ UNCHANGED <<cs, patches, running, base, wasApplied, events>>
    /\ UNCHANGED <<buildVars, analysisVars>>
\* mkdir or write_text raises: the except clause starts the reverse loop.
ApplyWriteFail(r) ==
    /\ running = {r}
    /\ req[r].pc = "write"
    /\ req[r].k <= Len(patches[req[r].c])
    /\ events < MaxEvents
    /\ fs' \in FailedWrite(fs, patches[req[r].c][req[r].k].file_path)
    /\ events' = events + 1
    /\ req' = [req EXCEPT ![r].pc = "reverse", ![r].n = req[r].k - 1, ![r].k = 1]
    /\ Silent
    /\ UNCHANGED <<cs, patches, running, base, wasApplied>>
    /\ UNCHANGED <<buildVars, analysisVars>>
\* All patches written: the status is set and the handler awaits the commit.
ApplyWritesDone(r) ==
    /\ running = {r}
    /\ req[r].pc = "write"
    /\ req[r].k > Len(patches[req[r].c])
    /\ req' = [req EXCEPT ![r].pc = "commit", ![r].status = APPLIED]
    /\ running' = NONE
    /\ Silent
    /\ UNCHANGED <<fs, cs, patches, base, wasApplied, events>>
    /\ UNCHANGED <<buildVars, analysisVars>>
\* The reverse loop rewrites the patches that stored an original.
\* A reverse loop that rewrites nothing.
NeedsReverseNever(patch) == FALSE
NeedsReverse(patch) == patch.original_content # NoText

ApplyReverseOk(r) ==
    /\ running = {r}
    /\ req[r].pc = "reverse"
    /\ req[r].k <= Len(patches[req[r].c])
    /\ LET patch == patches[req[r].c][req[r].k]
       IN  fs' = IF NeedsReverse(patch)
                 THEN [fs EXCEPT ![patch.file_path] = WriteText(patch.original_content)]
                 ELSE fs
    /\ req' = [req EXCEPT ![r].k = @ + 1]
    /\ Silent
    /\ UNCHANGED <<cs, patches, running, base, wasApplied, events>>
    /\ UNCHANGED <<buildVars, analysisVars>>
\* A reverse write raises and the exception is dropped.
ApplyReverseFail(r) ==
    /\ running = {r}
    /\ req[r].pc = "reverse"
    /\ req[r].k <= Len(patches[req[r].c])
    /\ NeedsReverse(patches[req[r].c][req[r].k])
    /\ events < MaxEvents
    /\ fs' \in FailedWrite(fs, patches[req[r].c][req[r].k].file_path)
    /\ events' = events + 1
    /\ req' = [req EXCEPT ![r].k = @ + 1,
                          ![r].rfail = @ \cup {patches[req[r].c][req[r].k].file_path}]
    /\ Silent
    /\ UNCHANGED <<cs, patches, running, base, wasApplied>>
    /\ UNCHANGED <<buildVars, analysisVars>>
\* After the reverse loop the handler raises 500.
ApplyRaise(r) ==
    /\ running = {r}
    /\ req[r].pc = "reverse"
    /\ req[r].k > Len(patches[req[r].c])
    /\ Reply(r, "io_error")
    /\ running' = NONE
    /\ UNCHANGED <<fs, cs, patches, base, wasApplied, events>>
    /\ UNCHANGED <<buildVars, analysisVars>>
\* db.commit() writes the attributes the handler set.  The row may have
\* been deleted meanwhile: the UPDATE then matches no row.
ApplyCommit(r) ==
    /\ running = NONE
    /\ req[r].pc = "commit"
    /\ req[r].op = "apply"
    /\ IF cs[req[r].c].exists
       THEN /\ cs' = [cs EXCEPT ![req[r].c].status = req[r].status,
                                ![req[r].c].applied_at = T]
            /\ wasApplied' = wasApplied \cup {req[r].c}
            /\ Reply(r, "applied")
       ELSE /\ Reply(r, "stale_row")
            /\ UNCHANGED <<cs, wasApplied>>
    /\ UNCHANGED <<fs, patches, running, base, events>>
    /\ UNCHANGED <<buildVars, analysisVars>>
(***************************************************************************)
(* POST /changesets/{id}/rollback                                          *)
(***************************************************************************)
RollbackAllowed(status) == status = APPLIED

RollbackBegin(r, c) ==
    /\ running = NONE
    /\ Slot(r)
    /\ events < MaxEvents
    /\ patches[c] # <<>>
    /\ IF ~cs[c].exists THEN Reject("rollback", c, "not_found")
       ELSE IF ~RollbackAllowed(cs[c].status) THEN Reject("rollback", c, "invalid_state")
       ELSE /\ req' = [req EXCEPT ![r] = [IdleReq EXCEPT !.op = "rollback", !.c = c,
                                          !.pc = "rb_wait", !.status = cs[c].status]]
            /\ Silent
    /\ events' = events + 1
    /\ UNCHANGED <<fs, cs, patches, running, base, wasApplied>>
    /\ UNCHANGED <<buildVars, analysisVars>>
\* get_project_path returned: the restore loop starts at the last patch.
RollbackEnter(r) ==
    /\ running = NONE
    /\ req[r].pc = "rb_wait"
    /\ req' = [req EXCEPT ![r].pc = "rb_write", ![r].k = Len(patches[req[r].c])]
    /\ running' = {r}
    /\ base' = Foreign(req[r].c)
    /\ Silent
    /\ UNCHANGED <<fs, cs, patches, wasApplied, events>>
    /\ UNCHANGED <<buildVars, analysisVars>>
\* One patch of the restore loop.
Restore(tree, patch) ==
    IF patch.original_content # NoText
    THEN [tree EXCEPT ![patch.file_path] = WriteText(patch.original_content)]
    ELSE IF Exists(tree, patch.file_path)
         THEN [tree EXCEPT ![patch.file_path] = ABSENT]
         ELSE tree

RollbackStep(r) ==
    /\ running = {r}
    /\ req[r].pc = "rb_write"
    /\ req[r].k >= 1
    /\ fs' = Restore(fs, patches[req[r].c][req[r].k])
    /\ req' = [req EXCEPT ![r].k = @ - 1]
    /\ Silent
    /\ UNCHANGED <<cs, patches, running, base, wasApplied, events>>
    /\ UNCHANGED <<buildVars, analysisVars>>
\* write_text or unlink raises: the exception leaves the handler.
RollbackFail(r) ==
    /\ running = {r}
    /\ req[r].pc = "rb_write"
    /\ req[r].k >= 1
    /\ events < MaxEvents
    /\ LET patch == patches[req[r].c][req[r].k]
       IN  /\ patch.original_content # NoText \/ Exists(fs, patch.file_path)
           /\ fs' \in IF patch.original_content # NoText
                      THEN FailedWrite(fs, patch.file_path)
                      ELSE {fs}
    /\ events' = events + 1
    /\ Reply(r, "io_error")
    /\ running' = NONE
    /\ UNCHANGED <<cs, patches, base, wasApplied>>
    /\ UNCHANGED <<buildVars, analysisVars>>
RollbackDone(r) ==
    /\ running = {r}
    /\ req[r].pc = "rb_write"
    /\ req[r].k = 0
    /\ req' = [req EXCEPT ![r].pc = "commit", ![r].status = ROLLED_BACK]
    /\ running' = NONE
    /\ Silent
    /\ UNCHANGED <<fs, cs, patches, base, wasApplied, events>>
    /\ UNCHANGED <<buildVars, analysisVars>>
RollbackCommit(r) ==
    /\ running = NONE
    /\ req[r].pc = "commit"
    /\ req[r].op = "rollback"
    /\ IF cs[req[r].c].exists
       THEN /\ cs' = [cs EXCEPT ![req[r].c].status = req[r].status,
                                ![req[r].c].rolled_back_at = T]
            /\ Reply(r, "rolled_back")
       ELSE /\ Reply(r, "stale_row")
            /\ UNCHANGED cs
    /\ UNCHANGED <<fs, patches, running, base, wasApplied, events>>
    /\ UNCHANGED <<buildVars, analysisVars>>
(***************************************************************************)
(* POST /changesets/{id}/commit                                            *)
(***************************************************************************)
CommitBegin(r, c) ==
    /\ running = NONE
    /\ Slot(r)
    /\ events < MaxEvents
    /\ patches[c] # <<>>
    /\ IF ~cs[c].exists THEN Reject("commit", c, "not_found")
       ELSE IF cs[c].status # APPLIED THEN Reject("commit", c, "invalid_state")
       ELSE IF cs[c].git_commit_sha # NULL THEN Reject("commit", c, "already_committed")
       ELSE /\ req' = [req EXCEPT ![r] = [IdleReq EXCEPT !.op = "commit", !.c = c,
                                          !.pc = "git", !.status = cs[c].status]]
            /\ Silent
    /\ events' = events + 1
    /\ UNCHANGED <<fs, cs, patches, running, base, wasApplied>>
    /\ UNCHANGED <<buildVars, analysisVars>>
\* is_git_repo, stage_files and commit run git in subprocesses.
CommitGit(r) ==
    /\ running = NONE
    /\ req[r].pc = "git"
    /\ \E out \in {"ok", "not_git", "git_error"} :
         IF out = "ok"
         THEN /\ req' = [req EXCEPT ![r].pc = "commit", ![r].sha = SHA(r)]
              /\ Silent
         ELSE Reply(r, out)
    /\ UNCHANGED <<fs, cs, patches, running, base, wasApplied, events>>
    /\ UNCHANGED <<buildVars, analysisVars>>
CommitCommit(r) ==
    /\ running = NONE
    /\ req[r].pc = "commit"
    /\ req[r].op = "commit"
    /\ IF cs[req[r].c].exists
       THEN /\ cs' = [cs EXCEPT ![req[r].c].git_commit_sha = req[r].sha]
            /\ Reply(r, "committed")
       ELSE /\ Reply(r, "stale_row")
            /\ UNCHANGED cs
    /\ UNCHANGED <<fs, patches, running, base, wasApplied, events>>
    /\ UNCHANGED <<buildVars, analysisVars>>
(***************************************************************************)
(* DELETE /changesets/{id}                                                 *)
(***************************************************************************)
DeleteAllowed(status) == status # APPLIED

DeleteBegin(r, c) ==
    /\ running = NONE
    /\ Slot(r)
    /\ events < MaxEvents
    /\ patches[c] # <<>>
    /\ IF ~cs[c].exists THEN Reject("delete", c, "not_found")
       ELSE IF ~DeleteAllowed(cs[c].status) THEN Reject("delete", c, "invalid_state")
       ELSE /\ req' = [req EXCEPT ![r] = [IdleReq EXCEPT !.op = "delete", !.c = c,
                                          !.pc = "commit", !.status = cs[c].status]]
            /\ Silent
    /\ events' = events + 1
    /\ UNCHANGED <<fs, cs, patches, running, base, wasApplied>>
    /\ UNCHANGED <<buildVars, analysisVars>>
\* The row goes at the commit.  `patches` keeps the patches: they are the
\* copies that handlers in flight have loaded.
DeleteCommit(r) ==
    /\ running = NONE
    /\ req[r].pc = "commit"
    /\ req[r].op = "delete"
    /\ IF cs[req[r].c].exists
       THEN /\ cs' = [cs EXCEPT ![req[r].c] = NoRow]
            /\ Reply(r, "deleted")
       ELSE /\ Reply(r, "stale_row")
            /\ UNCHANGED cs
    /\ UNCHANGED <<fs, patches, running, base, wasApplied, events>>
    /\ UNCHANGED <<buildVars, analysisVars>>
(***************************************************************************)
(* Snapshots: POST /projects/{id}/snapshots and IndexingEngine.            *)
(***************************************************************************)
MaxSnapshots == 2         \* snapshots ever created

BatchSize == 50           \* the build commits when i % 50 == 0
ErrorLimit == 1000        \* error_message = str(e)[:1000]

PENDING == "pending"
INDEXING == "indexing"
READY == "ready"
FAILED == "failed"

NoMessage == 0 - 1        \* error_message IS NULL (a message is its length)

SnapIds == 1..MaxSnapshots
RootKinds == {"unset", "missing", "file", "dir"}

\* The lines of a Python source, as the patterns of the parser see them:
\* a class statement, a def (indented or not), an import with as_count
\* occurrences of " as " in its module list.
NoName == ""
ClassLine(name) == [kind |-> "class", name |-> name, indent |-> FALSE, as_count |-> 0]
DefLine(name, indent) == [kind |-> "def", name |-> name, indent |-> indent, as_count |-> 0]
ImportLine(as_count) ==
    [kind |-> "import", name |-> NoName, indent |-> FALSE, as_count |-> as_count]

\* What the scanner hands to the build.  TextFile: a class C with a method
\* m and a method C.  AliasFile: import os as o  # used as alias
TextFile == [line_count |-> 3, language |-> "python",
             content |-> <<ClassLine("C"), DefLine("m", TRUE), DefLine("C", TRUE)>>]
BinaryFile == [line_count |-> 0, language |-> NULL, content |-> <<>>]
AliasFile == [line_count |-> 1, language |-> "python", content |-> <<ImportLine(2)>>]
ScanResults ==
    UNION {[1..n -> {TextFile, BinaryFile, AliasFile}] : n \in 0..2}
        \cup {[i \in 1..(BatchSize + 1) |->
                  IF i \in {1, BatchSize + 1} THEN TextFile ELSE BinaryFile]}

NoParse == [symbols |-> <<>>, raised |-> FALSE]

\* mod, alias = mod.split(" as ") raises ValueError unless the split gives
\* two parts.
SplitRaises(line) == line.as_count > 1

\* _parse_python_regex, the parser used when tree-sitter is not installed:
\* the ExtractedSymbols of the lines in order, each method with the last
\* class seen as parent_name; raised when a line made the parser raise.
RECURSIVE ParsePythonRegex(_, _, _, _)
ParsePythonRegex(lines, k, current_class, result) ==
    IF k > Len(lines) THEN result
    ELSE IF lines[k].kind = "import"
    THEN IF lines[k].as_count > 0 /\ SplitRaises(lines[k])
         THEN [result EXCEPT !.raised = TRUE]
         ELSE ParsePythonRegex(lines, k + 1, current_class, result)
    ELSE IF lines[k].kind = "class"
    THEN ParsePythonRegex(lines, k + 1, lines[k].name,
             [result EXCEPT !.symbols =
                 Append(@, [name |-> lines[k].name, parent_name |-> NoName])])
    ELSE ParsePythonRegex(lines, k + 1, current_class,
             [result EXCEPT !.symbols =
                 Append(@, [name |-> lines[k].name,
                            parent_name |-> IF lines[k].indent THEN current_class
                                            ELSE NoName])])

\* if scanned.content and scanned.language: self.parser.parse(...)
ParseOf(file) ==
    IF file.content # <<>> /\ file.language # NULL
    THEN ParsePythonRegex(file.content, 1, NoName, NoParse)
    ELSE NoParse

NoParent == <<>>

ResolveElsewhere(snapshot_id, symbol_map, parent_name) ==
    <<snapshot_id + MaxSnapshots, 1, 1>>
\* symbol_map[extracted.parent_name]
Resolve(snapshot_id, symbol_map, parent_name) == symbol_map[parent_name]

\* The Symbol rows flushed for the ExtractedSymbols of one file: the k-th
\* has a fresh id, enters symbol_map under its name and is linked to the
\* symbol its parent_name maps to, if any.
RECURSIVE StoreSymbols(_, _, _, _, _, _)
StoreSymbols(snapshot_id, file_id, extracted, k, symbol_map, rows) ==
    IF k > Len(extracted) THEN rows
    ELSE LET id == <<snapshot_id, file_id, k>>
             map == [name \in DOMAIN symbol_map \cup {extracted[k].name} |->
                        IF name = extracted[k].name THEN id ELSE symbol_map[name]]
             parent_id == IF /\ extracted[k].parent_name # NoName
                             /\ extracted[k].parent_name \in DOMAIN map
                          THEN Resolve(snapshot_id, map, extracted[k].parent_name)
                          ELSE NoParent
         IN  StoreSymbols(snapshot_id, file_id, extracted, k + 1, map,
                          rows \cup {[id |-> id, snapshot_id |-> snapshot_id,
                                      file_id |-> file_id, parent_id |-> parent_id]})

\* Progress values as fractions <<numerator, denominator>>.
FileProgressWide(i, total_files) == <<10 * total_files + 100 * i, total_files>>
\* progress = 10 + (i / total_files) * 80
FileProgress(i, total_files) == <<10 * total_files + 80 * i, total_files>>

\* str(e) of the exceptions a step may raise, as lengths
MessageLengths == {7, ErrorLimit + 1}

\* The files of a scan at which the model lets the loop raise: the first,
\* the second and the first past a full batch.
RaisingFiles == {1, 2, BatchSize + 1}

NoSnapshot == [exists |-> FALSE, status |-> NULL, progress |-> 0,
               error_message |-> NoMessage, file_count |-> 0,
               symbol_count |-> 0, total_lines |-> 0]

\* Snapshot(project_id=..., status=status) with the column defaults
NewSnapshot(status) == [NoSnapshot EXCEPT !.exists = TRUE, !.status = status]

\* pc: position in index_project; id, obj: the Snapshot object of the
\* session; scanned, i: the file loop; flushed: File rows not yet
\* committed; symbols: Symbol rows not yet committed; callback: a progress callback was given; exc: str(e) length
\* of the exception caught, step: where it was raised, broken: it came
\* out of a flush, which leaves the session's transaction inactive.
NoBuild == [pc |-> "idle", id |-> 0, obj |-> NoSnapshot, scanned |-> <<>>,
            i |-> 0, file_count |-> 0, symbol_count |-> 0, total_lines |-> 0,
            flushed |-> 0, symbols |-> {}, callback |-> FALSE, exc |-> NoMessage,
            step |-> "none", broken |-> FALSE]

NoOutcome == [id |-> 0, result |-> "none", step |-> "none"]

Caught(b, step, len, broken) ==
    [b EXCEPT !.pc = "except", !.exc = len, !.step = step, !.broken = broken]

BuildInit ==
    /\ root \in RootKinds
    /\ symbolRows = {}
    /\ progressLog = <<>>
    /\ snaps = [s \in SnapIds |-> NoSnapshot]
    /\ fileRows = [s \in SnapIds |-> 0]
    /\ issued = 0
    /\ build = NoBuild
    /\ outcome = NoOutcome
    /\ everReady = {}

\* A commit that stores the session's snapshot in the row of the first one.
CommittedAsFirst(b) == [snaps EXCEPT ![1] = b.obj]
\* db.commit(): the session's snapshot and its flushed File rows are stored.
Committed(b) == [snaps EXCEPT ![b.id] = b.obj]

Observe(table) == everReady \cup {s \in SnapIds : table[s].status = READY}

\* create_snapshot: a PENDING row is committed; the background task that
\* would index it is commented out.
CreateSnapshot ==
    /\ root # "unset"
    /\ issued < MaxSnapshots
    /\ issued' = issued + 1
    /\ snaps' = [snaps EXCEPT ![issued + 1] = NewSnapshot(PENDING)]
    /\ UNCHANGED <<root, symbolRows, progressLog, fileRows, build, outcome, everReady>>
    /\ UNCHANGED <<csVars, analysisVars>>

\* index_project up to the flush of the new Snapshot.
RootAccepted(kind) == kind \notin {"unset", "missing"}

IndexStart(callback) ==
    /\ build.pc = "idle"
    /\ issued < MaxSnapshots
    /\ IF RootAccepted(root)
       THEN /\ issued' = issued + 1
            /\ build' = [NoBuild EXCEPT !.pc = "report5", !.id = issued + 1,
                                        !.obj = NewSnapshot(INDEXING),
                                        !.callback = callback]
            /\ outcome' = NoOutcome
            /\ progressLog' = <<>>
       ELSE /\ outcome' = [id |-> 0, result |-> "value_error", step |-> "none"]
            /\ UNCHANGED <<issued, build, progressLog>>
    /\ UNCHANGED <<root, symbolRows, snaps, fileRows, everReady>>
    /\ UNCHANGED <<csVars, analysisVars>>

\* _report_progress(5, ...) stands before the try.
Report5 ==
    /\ build.pc = "report5"
    /\ build' = [build EXCEPT !.pc = "scan"]
    /\ progressLog' = Append(progressLog, <<5, 1>>)
    /\ UNCHANGED <<root, symbolRows, snaps, fileRows, issued, outcome, everReady>>
    /\ UNCHANGED <<csVars, analysisVars>>

\* The callback raises: the exception leaves index_project and the session
\* is rolled back with the flushed Snapshot.
Report5Raise ==
    /\ build.pc = "report5"
    /\ build.callback
    /\ build' = NoBuild
    /\ outcome' = [id |-> build.id, result |-> "raised", step |-> "report5"]
    /\ progressLog' = Append(progressLog, <<5, 1>>)
    /\ UNCHANGED <<root, symbolRows, snaps, fileRows, issued, everReady>>
    /\ UNCHANGED <<csVars, analysisVars>>

\* scan_all and _report_progress(10, ...).  A root that is a file has
\* nothing to walk.
Scan(files) ==
    /\ build.pc = "scan"
    /\ root = "file" => files = <<>>
    /\ build' = [build EXCEPT !.pc = "files", !.scanned = files, !.i = 0]
    /\ progressLog' = Append(progressLog, <<10, 1>>)
    /\ UNCHANGED <<root, symbolRows, snaps, fileRows, issued, outcome, everReady>>
    /\ UNCHANGED <<csVars, analysisVars>>

ScanRaise(len) ==
    /\ build.pc = "scan"
    /\ build' = Caught(build, "scan", len, FALSE)
    /\ UNCHANGED <<root, symbolRows, progressLog, snaps, fileRows, issued, outcome, everReady>>
    /\ UNCHANGED <<csVars, analysisVars>>

\* One pass of the file loop: progress report, File row, symbols, and the
\* batch commit.
BatchCommit(i) == i % BatchSize = 0

ProcessFile ==
    /\ build.pc = "files"
    /\ build.i < Len(build.scanned)
    /\ ~ParseOf(build.scanned[build.i + 1]).raised
    /\ LET file == build.scanned[build.i + 1]
           stored == StoreSymbols(build.id, build.i + 1, ParseOf(file).symbols, 1,
                                  <<>>, {})
           b == [build EXCEPT !.i = @ + 1,
                              !.file_count = @ + 1,
                              !.total_lines = @ + file.line_count,
                              !.symbol_count = @ + Len(ParseOf(file).symbols),
                              !.flushed = IF BatchCommit(build.i) THEN 0 ELSE @ + 1,
                              !.symbols = IF BatchCommit(build.i) THEN {}
                                          ELSE @ \cup stored]
       IN  /\ build' = b
           /\ IF BatchCommit(build.i)
              THEN /\ snaps' = Committed(b)
                   /\ fileRows' = [fileRows EXCEPT ![b.id] = @ + build.flushed + 1]
                   /\ symbolRows' = symbolRows \cup build.symbols \cup stored
              ELSE UNCHANGED <<snaps, fileRows, symbolRows>>
    /\ progressLog' = Append(progressLog, FileProgress(build.i, Len(build.scanned)))
    /\ UNCHANGED <<root, issued, outcome, everReady>>
    /\ UNCHANGED <<csVars, analysisVars>>

\* The flush of a File or Symbol row raises (flush), or the parser or the
\* batch commit does; a failed commit rolls the session back itself.
ProcessFileRaise(len, flush) ==
    /\ build.pc = "files"
    /\ build.i < Len(build.scanned)
    /\ build.i + 1 \in RaisingFiles
    /\ build' = Caught(build, "files", len, flush)
    /\ progressLog' = Append(progressLog, FileProgress(build.i, Len(build.scanned)))
    /\ UNCHANGED <<root, symbolRows, snaps, fileRows, issued, outcome, everReady>>
    /\ UNCHANGED <<csVars, analysisVars>>

\* self.parser.parse raises inside the try: the File row of the file is
\* flushed already, and the build goes to the handler.
ParseRaise(len) ==
    /\ build.pc = "files"
    /\ build.i < Len(build.scanned)
    /\ ParseOf(build.scanned[build.i + 1]).raised
    /\ build' = Caught([build EXCEPT !.file_count = @ + 1,
                                     !.total_lines = @ + build.scanned[build.i + 1].line_count,
                                     !.flushed = @ + 1],
                       "parse", len, FALSE)
    /\ progressLog' = Append(progressLog, FileProgress(build.i, Len(build.scanned)))
    /\ UNCHANGED <<root, symbolRows, snaps, fileRows, issued, outcome, everReady>>
    /\ UNCHANGED <<csVars, analysisVars>>

\* A finalize that leaves progress as it was.
FinalizeKeepsProgress(obj, b) ==
    [obj EXCEPT !.status = READY,
                !.file_count = b.file_count,
                !.symbol_count = b.symbol_count,
                !.total_lines = b.total_lines]
\* The attributes set before the last commit.
Finalize(obj, b) ==
    [obj EXCEPT !.status = READY, !.progress = 100,
                !.file_count = b.file_count,
                !.symbol_count = b.symbol_count,
                !.total_lines = b.total_lines]

FinalizeSnapshot ==
    /\ build.pc = "files"
    /\ build.i = Len(build.scanned)
    /\ LET b == [build EXCEPT !.pc = "report100", !.obj = Finalize(build.obj, build),
                              !.flushed = 0, !.symbols = {}]
       IN  /\ build' = b
           /\ snaps' = Committed(b)
           /\ fileRows' = [fileRows EXCEPT ![b.id] = @ + build.flushed]
           /\ symbolRows' = symbolRows \cup build.symbols
           /\ everReady' = Observe(Committed(b))
    /\ UNCHANGED <<root, progressLog, issued, outcome>>
    /\ UNCHANGED <<csVars, analysisVars>>

\* The last commit raises: the object is READY in memory only.
FinalizeRaise(len) ==
    /\ build.pc = "files"
    /\ build.i = Len(build.scanned)
    /\ build' = Caught([build EXCEPT !.obj = Finalize(build.obj, build)],
                       "finalize", len, FALSE)
    /\ UNCHANGED <<root, symbolRows, progressLog, snaps, fileRows, issued, outcome, everReady>>
    /\ UNCHANGED <<csVars, analysisVars>>

\* _report_progress(100, ...) and the return.
Report100 ==
    /\ build.pc = "report100"
    /\ build' = NoBuild
    /\ outcome' = [id |-> build.id, result |-> "returned", step |-> "none"]
    /\ progressLog' = Append(progressLog, <<100, 1>>)
    /\ UNCHANGED <<root, symbolRows, snaps, fileRows, issued, everReady>>
    /\ UNCHANGED <<csVars, analysisVars>>

Report100Raise(len) ==
    /\ build.pc = "report100"
    /\ build.callback
    /\ build' = Caught(build, "report100", len, FALSE)
    /\ progressLog' = Append(progressLog, <<100, 1>>)
    /\ UNCHANGED <<root, symbolRows, snaps, fileRows, issued, outcome, everReady>>
    /\ UNCHANGED <<csVars, analysisVars>>

\* except Exception: the snapshot is marked and committed, and the
\* exception is raised again.
Truncate(len) == IF len > ErrorLimit THEN ErrorLimit ELSE len

MarkFailed(obj, len) == [obj EXCEPT !.status = FAILED, !.error_message = Truncate(len)]

HandleException ==
    /\ build.pc = "except"
    /\ ~build.broken
    /\ snaps' = Committed([build EXCEPT !.obj = MarkFailed(build.obj, build.exc)])
    /\ fileRows' = [fileRows EXCEPT ![build.id] = @ + build.flushed]
    /\ symbolRows' = symbolRows \cup build.symbols
    /\ build' = NoBuild
    /\ outcome' = [id |-> build.id, result |-> "raised", step |-> build.step]
    /\ UNCHANGED <<root, progressLog, issued, everReady>>
    /\ UNCHANGED <<csVars, analysisVars>>

\* After a failed flush the handler's commit raises, no rollback having
\* been issued: nothing is stored and the caller gets that exception.
HandleExceptionRaise ==
    /\ build.pc = "except"
    /\ build.broken
    /\ build' = NoBuild
    /\ outcome' = [id |-> build.id, result |-> "raised", step |-> build.step]
    /\ UNCHANGED <<root, symbolRows, progressLog, snaps, fileRows, issued, everReady>>
    /\ UNCHANGED <<csVars, analysisVars>>

(***************************************************************************)
(* The file scanner and the incremental diff.                              *)
(***************************************************************************)
MaxBytes == 2            \* length of the longest file of a tree
SniffLen == 8192         \* bytes _is_binary reads

DiffPaths == {"a.py", "b.png"}
Bytes == {"x", "y", "NUL"}
FileContents == UNION {[1..n -> Bytes] : n \in 1..MaxBytes}
DiffTrees == [DiffPaths -> FileContents \cup {ABSENT}]

\* path.suffix.lower()
Suffix(path) == CASE path = "a.py" -> ".py" [] path = "b.png" -> ".png" [] OTHER -> ""
BINARY_EXTENSIONS == {".png", ".jpg", ".pdf", ".zip", ".exe", ".pyc"}

Min(a, b) == IF a <= b THEN a ELSE b

\* Binary by extension, or a null byte among the first SniffLen bytes.
IsBinary(path, bytes) ==
    \/ Suffix(path) \in BINARY_EXTENSIONS
    \/ \E i \in 1..Min(Len(bytes), SniffLen) : bytes[i] = "NUL"

\* hashlib.sha256 over the bytes of the file: equal bytes, equal digests,
\* and no two of the files of a tree collide.
ComputeSha256(bytes) == <<"sha256", bytes>>
NoSha == <<"None">>

\* The ScannedFile of one directory entry: a binary file is given no digest.
ScannedFile(path, bytes) ==
    [path |-> path,
     is_binary |-> IsBinary(path, bytes),
     sha256 |-> IF IsBinary(path, bytes) THEN NoSha ELSE ComputeSha256(bytes)]

\* The orders in which os.walk may list the files of the tree: os.walk
\* yields the entries as os.scandir returns them, and scan() sorts nothing.
PathLists == UNION {[1..n -> DiffPaths] : n \in 0..Cardinality(DiffPaths)}

Listings(t) ==
    {l \in PathLists :
        /\ \A i, j \in DOMAIN l : l[i] = l[j] => i = j
        /\ {l[i] : i \in DOMAIN l} = {path \in DiffPaths : t[path] # ABSENT}}

\* scan_all(): one ScannedFile per file, in the order of the listing.
ScanAll(t, listing) ==
    [i \in DOMAIN listing |-> ScannedFile(listing[i], t[listing[i]])]

NoBaseSnapshot == [built |-> FALSE, files |-> <<>>]
NoEdit == <<>>
NoDiff == [done |-> FALSE, base |-> FALSE, added_files |-> {}, modified_files |-> {},
           deleted_paths |-> {}, unchanged_count |-> 0]

\* index_project over the tree: one File row per ScannedFile, added in the
\* order of the scan, with the digest of the ScannedFile.
IndexTree(listing) ==
    /\ ~baseSnapshot.built
    /\ listing \in Listings(projectTree)
    /\ baseSnapshot' = [built |-> TRUE,
                        files |-> [i \in DOMAIN listing |->
                                     [path |-> ScanAll(projectTree, listing)[i].path,
                                      sha256 |-> ScanAll(projectTree, listing)[i].sha256]]]
    /\ UNCHANGED <<projectTree, edited, diff, graph, changed, trace, counts, risk>>
    /\ UNCHANGED <<csVars, buildVars, copyVars>>

\* Somebody changes one byte of a file of the tree after the build.
EditByte(path, i, byte) ==
    /\ baseSnapshot.built
    /\ edited = NoEdit
    /\ projectTree[path] # ABSENT
    /\ i \in DOMAIN projectTree[path]
    /\ byte # projectTree[path][i]
    /\ projectTree' = [projectTree EXCEPT ![path][i] = byte]
    /\ edited' = <<"byte", path>>
    /\ diff' = NoDiff
    /\ UNCHANGED <<baseSnapshot, graph, changed, trace, counts, risk>>
    /\ UNCHANGED <<csVars, buildVars, copyVars>>

\* Somebody removes a file of the tree after the build.
RemoveFile(path) ==
    /\ baseSnapshot.built
    /\ edited = NoEdit
    /\ projectTree[path] # ABSENT
    /\ projectTree' = [projectTree EXCEPT ![path] = ABSENT]
    /\ edited' = <<"removed", path>>
    /\ diff' = NoDiff
    /\ UNCHANGED <<baseSnapshot, graph, changed, trace, counts, risk>>
    /\ UNCHANGED <<csVars, buildVars, copyVars>>

\* get_file_hashes: path -> sha256 of the File rows of the snapshot.
GetFileHashes(files) ==
    [path \in {files[i].path : i \in DOMAIN files} |->
        files[CHOOSE i \in DOMAIN files : files[i].path = path].sha256
    ]

SameHashNever(current_sha, base_hash) == FALSE
SameHash(current_sha, base_hash) == current_sha = base_hash

\* compute_diff with a base snapshot.
DiffAgainst(current_files, base_hashes) ==
    LET current_by_path == [path \in {current_files[i].path : i \in DOMAIN current_files} |->
                              (CHOOSE f \in {current_files[i] : i \in DOMAIN current_files} :
                                  f.path = path)]
        current_paths == DOMAIN current_by_path
        base_paths == DOMAIN base_hashes
        common_paths == current_paths \cap base_paths
        modified == {path \in common_paths :
                        ~SameHash(current_by_path[path].sha256, base_hashes[path])}
    IN  [done |-> TRUE, base |-> TRUE,
         added_files |-> current_paths \ base_paths,
         modified_files |-> modified,
         deleted_paths |-> base_paths \ current_paths,
         unchanged_count |-> Cardinality(common_paths \ modified)]

\* compute_diff(project_path, base_snapshot_id): without a base every file
\* of the scan is added.
ComputeDiff(listing, with_base) ==
    /\ with_base => baseSnapshot.built
    /\ listing \in Listings(projectTree)
    /\ diff' = IF with_base
                 THEN DiffAgainst(ScanAll(projectTree, listing), GetFileHashes(baseSnapshot.files))
                 ELSE [NoDiff EXCEPT !.done = TRUE,
                          !.added_files = {ScanAll(projectTree, listing)[i].path : i \in DOMAIN listing}]
    /\ UNCHANGED <<projectTree, baseSnapshot, edited, graph, changed, trace, counts, risk>>
    /\ UNCHANGED <<csVars, buildVars, copyVars>>

DiffInit ==
    /\ projectTree \in DiffTrees
    /\ baseSnapshot = NoBaseSnapshot
    /\ edited = NoEdit
    /\ diff = NoDiff

DiffIdle ==
    /\ projectTree = [path \in DiffPaths |-> ABSENT]
    /\ baseSnapshot = NoBaseSnapshot
    /\ edited = NoEdit
    /\ diff = NoDiff

(***************************************************************************)
(* IncrementalIndexer.copy_unchanged_files                                 *)
(***************************************************************************)
\* The columns of a File row that index_project fills: a source file with
\* cached content, a generated file without, a binary file.
FileShapes ==
    { [language |-> "python", size_bytes |-> 2, line_count |-> 1, sha256 |-> "h1",
       is_binary |-> FALSE, is_generated |-> FALSE, content |-> <<"x", "LF">>],
      [language |-> "python", size_bytes |-> 4, line_count |-> 2, sha256 |-> "h2",
       is_binary |-> FALSE, is_generated |-> TRUE, content |-> NoText],
      [language |-> NULL, size_bytes |-> 3, line_count |-> 0, sha256 |-> NULL,
       is_binary |-> TRUE, is_generated |-> FALSE, content |-> NoText] }

FileRow(id, snapshot_id, path, shape) ==
    [id |-> id, snapshot_id |-> snapshot_id, path |-> path,
     language |-> shape.language, size_bytes |-> shape.size_bytes,
     line_count |-> shape.line_count, sha256 |-> shape.sha256,
     is_binary |-> shape.is_binary, is_generated |-> shape.is_generated,
     content |-> shape.content]

\* The ids of the rows that exist before the call; a new row gets an id
\* that no row has.
StoredId(snapshot_id, path) ==
    2 * (snapshot_id - 1) + (IF path = "a.py" THEN 1 ELSE 2)
FreshId(source_id) == 2 * MaxSnapshots + source_id

\* The tables the call may find: of every snapshot, a row or none for each
\* path.
FileTables ==
    UNION {{{FileRow(StoredId(k[1], k[2]), k[1], k[2], t[k]) : k \in present} :
               t \in [present -> FileShapes]} :
             present \in SUBSET (SnapIds \X DiffPaths)}

NoCopy == [done |-> FALSE, source |-> 0, target |-> 0, paths |-> {}, raised |-> FALSE,
           returned |-> 0]

\* A copy that leaves the cached content behind.
NewFileWithoutContent(target_snapshot_id, source, id) ==
    [id |-> id, snapshot_id |-> target_snapshot_id, path |-> source.path,
     language |-> source.language, size_bytes |-> source.size_bytes,
     line_count |-> source.line_count, sha256 |-> source.sha256,
     is_binary |-> source.is_binary, is_generated |-> FALSE, content |-> NoText]
\* File(snapshot_id=target_snapshot_id, path=source.path, ...): is_generated
\* is not passed and takes the column default.
NewFile(target_snapshot_id, source, id) ==
    [id |-> id, snapshot_id |-> target_snapshot_id, path |-> source.path,
     language |-> source.language, size_bytes |-> source.size_bytes,
     line_count |-> source.line_count, sha256 |-> source.sha256,
     is_binary |-> source.is_binary, is_generated |-> FALSE,
     content |-> source.content]

\* select(File).where(File.snapshot_id == source, File.path.in_(paths))
SourceFilesOf(table, source_snapshot_id, paths) ==
    {f \in table : f.snapshot_id = source_snapshot_id /\ f.path \in paths}

\* copy_unchanged_files to its return: the new rows are flushed.
CopyUnchangedFiles(source_snapshot_id, target_snapshot_id, paths) ==
    /\ ~copyCall.done
    /\ LET source_files == IF paths = {} THEN {}
                           ELSE SourceFilesOf(fileTable, source_snapshot_id, paths)
       IN  /\ fileTable' = fileTable \cup
                  {NewFile(target_snapshot_id, source, FreshId(source.id)) :
                      source \in source_files}
           /\ copyCall' = [done |-> TRUE, source |-> source_snapshot_id,
                           target |-> target_snapshot_id, paths |-> paths,
                           raised |-> FALSE, returned |-> Cardinality(source_files)]
    /\ UNCHANGED <<projectTree, baseSnapshot, edited, diff, graph, changed, trace, counts, risk>>
    /\ UNCHANGED <<csVars, buildVars>>

\* The query or the flush raises: no row is stored and nothing is returned.
CopyRaise(source_snapshot_id, target_snapshot_id, paths) ==
    /\ ~copyCall.done
    /\ paths # {}
    /\ copyCall' = [done |-> TRUE, source |-> source_snapshot_id,
                    target |-> target_snapshot_id, paths |-> paths,
                    raised |-> TRUE, returned |-> 0]
    /\ UNCHANGED fileTable
    /\ UNCHANGED <<projectTree, baseSnapshot, edited, diff, graph, changed, trace, counts, risk>>
    /\ UNCHANGED <<csVars, buildVars>>

CopyInit ==
    /\ fileTable \in FileTables
    /\ copyCall = NoCopy

CopyIdle ==
    /\ fileTable = {}
    /\ copyCall = NoCopy

NextCopy ==
    \/ \E source \in SnapIds, target \in SnapIds, paths \in SUBSET DiffPaths :
         CopyUnchangedFiles(source, target, paths)
    \/ \E source \in SnapIds, target \in SnapIds, paths \in SUBSET DiffPaths :
         CopyRaise(source, target, paths)

(***************************************************************************)
(* Impact analysis over the references of a snapshot.                      *)
(***************************************************************************)
MaxSymbols == 5          \* symbols of the analysed snapshot
MaxRefs == 2             \* Reference rows of the first pair of symbols
MaxChanged == 2          \* length of the longest symbol_ids list
max_depth == 3

SymbolIds == 1..MaxSymbols
SourceFiles == {"f1", "f2", "f3"}

\* Symbol.file.path of each symbol.
FileOf(id) == IF id <= 2 THEN "f1" ELSE IF id = 3 THEN "f2" ELSE "f3"

\* The pairs (from_symbol_id, to_symbol_id) a Reference row may hold: a
\* chain of four references, a cycle 1 -> 3 -> 2 -> 1, a shortcut and a
\* symbol that refers to itself.
CandidateRefs ==
    <<[from |-> 2, to |-> 1], [from |-> 3, to |-> 2], [from |-> 4, to |-> 3],
      [from |-> MaxSymbols, to |-> 4], [from |-> 1, to |-> 3], [from |-> 4, to |-> 1],
      [from |-> 2, to |-> 2]>>

\* A references table: how many rows each candidate pair has, the first
\* pair up to MaxRefs and the others at most one.
Graphs == {g \in [DOMAIN CandidateRefs -> 0..MaxRefs] :
              \A k \in DOMAIN CandidateRefs : k > 1 => g[k] <= 1}

RECURSIVE Rows(_, _)
Rows(g, k) ==
    IF k = 0 THEN <<>>
    ELSE Rows(g, k - 1) \o [n \in 1..g[k] |-> CandidateRefs[k]]

\* The Reference rows of the snapshot, in the order the query returns them.
References(g) == Rows(g, Len(CandidateRefs))

Range(seq) == {seq[i] : i \in DOMAIN seq}

SymbolIdLists == UNION {[1..n -> SymbolIds] : n \in 0..MaxChanged}

UnvisitedAlways(id, visited) == TRUE
\* ref.from_symbol_id not in visited
Unvisited(id, visited) == id \notin visited

\* The for loop over the references of one level.
RECURSIVE VisitReferences(_, _, _, _, _, _)
VisitReferences(references, k, visited, next_ids, impacted_symbols, distance) ==
    IF k > Len(references)
    THEN [visited |-> visited, next_ids |-> next_ids, impacted_symbols |-> impacted_symbols]
    ELSE IF Unvisited(references[k].from, visited)
         THEN VisitReferences(references, k + 1, visited \cup {references[k].from},
                              Append(next_ids, references[k].from),
                              Append(impacted_symbols,
                                     [id |-> references[k].from,
                                      file_path |-> FileOf(references[k].from),
                                      distance |-> distance]),
                              distance)
         ELSE VisitReferences(references, k + 1, visited, next_ids, impacted_symbols,
                              distance)

DepthNever(distance) == FALSE
\* the loop's test distance <= max_depth, negated
DepthReached(distance) == distance > max_depth

\* The while loop: one query per level, until a level finds nothing new or
\* max_depth levels were read.
RECURSIVE TraceLevels(_, _, _, _, _)
TraceLevels(rows, visited, impacted_symbols, current_ids, distance) ==
    IF current_ids = <<>> \/ DepthReached(distance)
    THEN impacted_symbols
    ELSE LET references == SelectSeq(rows, LAMBDA ref : ref.to \in Range(current_ids))
             level == VisitReferences(references, 1, visited, <<>>, impacted_symbols,
                                      distance)
         IN  TraceLevels(rows, level.visited, level.impacted_symbols, level.next_ids,
                         distance + 1)

\* _trace_impact(symbol_ids): the impacted symbols and the impacted files.
TraceImpact(g, symbol_ids) ==
    LET impacted_symbols == TraceLevels(References(g), Range(symbol_ids), <<>>,
                                        symbol_ids, 1)
    IN  [impacted_symbols |-> impacted_symbols,
         impacted_files |-> {impacted_symbols[i].file_path : i \in DOMAIN impacted_symbols}]

CalculateRiskByTotal(changed_files, changed_symbols, impacted_files, impacted_symbols) ==
    IF changed_files + changed_symbols + impacted_files + impacted_symbols <= 7 THEN "low"
    ELSE "critical"

\* _calculate_risk
CalculateRisk(changed_files, changed_symbols, impacted_files, impacted_symbols) ==
    IF impacted_files + impacted_symbols = 0 THEN "low"
    ELSE IF impacted_files <= 2 /\ impacted_symbols <= 5 THEN "low"
    ELSE IF impacted_files <= 5 /\ impacted_symbols <= 15 THEN "medium"
    ELSE IF impacted_files <= 10 /\ impacted_symbols <= 30 THEN "high"
    ELSE "critical"

NoTrace == [done |-> FALSE, impacted_symbols |-> <<>>, impacted_files |-> {}]
NoCounts == [changed_files |-> 0, changed_symbols |-> 0,
             impacted_files |-> 0, impacted_symbols |-> 0]
NoRisk == "none"

\* The ImpactAnalysis of a traced change.
Analysis(result, changed_files, changed_symbols) ==
    /\ trace' = [done |-> TRUE, impacted_symbols |-> result.impacted_symbols,
                 impacted_files |-> result.impacted_files]
    /\ counts' = [changed_files |-> changed_files, changed_symbols |-> changed_symbols,
                  impacted_files |-> Cardinality(result.impacted_files),
                  impacted_symbols |-> Len(result.impacted_symbols)]
    /\ risk' = CalculateRisk(changed_files, changed_symbols,
                             Cardinality(result.impacted_files),
                             Len(result.impacted_symbols))

\* analyze_symbol_changes(symbol_ids)
AnalyzeSymbolChanges ==
    /\ ~trace.done
    /\ Analysis(TraceImpact(graph, changed),
                Cardinality({FileOf(id) : id \in Range(changed)}),
                Cardinality(Range(changed)))
    /\ UNCHANGED <<graph, changed>>
    /\ UNCHANGED <<projectTree, baseSnapshot, edited, diff>>
    /\ UNCHANGED <<csVars, buildVars, copyVars>>

RECURSIVE SetToSeq(_)
SetToSeq(set) ==
    IF set = {} THEN <<>>
    ELSE LET id == CHOOSE x \in set : \A y \in set : x <= y
         IN  <<id>> \o SetToSeq(set \ {id})

\* analyze_file_changes(file_paths): the symbols of the files are the
\* changed symbols.
AnalyzeFileChanges(file_paths) ==
    /\ ~trace.done
    /\ changed' = SetToSeq({id \in SymbolIds : FileOf(id) \in file_paths})
    /\ Analysis(TraceImpact(graph, changed'), Cardinality(file_paths), Len(changed'))
    /\ UNCHANGED graph
    /\ UNCHANGED <<projectTree, baseSnapshot, edited, diff>>
    /\ UNCHANGED <<csVars, buildVars, copyVars>>

ImpactInit ==
    /\ graph \in Graphs
    /\ changed \in SymbolIdLists
    /\ trace = NoTrace
    /\ counts = NoCounts
    /\ risk = NoRisk

\* _calculate_risk over counts of any size.
MaxImpactedFiles == 12
MaxImpactedSymbols == 32
ChangedCounts == {0, 1, 50}

RiskCounts ==
    [changed_files : ChangedCounts, changed_symbols : ChangedCounts,
     impacted_files : 0..MaxImpactedFiles, impacted_symbols : 0..MaxImpactedSymbols]

RiskInit ==
    /\ graph = [k \in DOMAIN CandidateRefs |-> 0]
    /\ changed = <<>>
    /\ trace = NoTrace
    /\ counts \in RiskCounts
    /\ risk = NoRisk

CalculateRiskCall ==
    /\ risk = NoRisk
    /\ risk' = CalculateRisk(counts.changed_files, counts.changed_symbols,
                             counts.impacted_files, counts.impacted_symbols)
    /\ UNCHANGED <<graph, changed, trace, counts>>
    /\ UNCHANGED <<projectTree, baseSnapshot, edited, diff>>
    /\ UNCHANGED <<csVars, buildVars, copyVars>>

ImpactIdle ==
    /\ graph = [k \in DOMAIN CandidateRefs |-> 0]
    /\ changed = <<>>
    /\ trace = NoTrace
    /\ counts = NoCounts
    /\ risk = NoRisk

AnalysisIdle == DiffIdle /\ ImpactIdle /\ CopyIdle

NextDiff ==
    \/ \E listing \in PathLists : IndexTree(listing)
    \/ \E path \in DiffPaths, i \in 1..MaxBytes, byte \in Bytes : EditByte(path, i, byte)
    \/ \E path \in DiffPaths : RemoveFile(path)
    \/ \E listing \in PathLists, with_base \in BOOLEAN : ComputeDiff(listing, with_base)

NextImpact ==
    \/ AnalyzeSymbolChanges
    \/ \E file_paths \in SUBSET SourceFiles : AnalyzeFileChanges(file_paths)

NextRisk == CalculateRiskCall

BuildInit0 ==
    /\ root = "dir"
    /\ symbolRows = {}
    /\ progressLog = <<>>
    /\ snaps = [s \in SnapIds |-> NoSnapshot]
    /\ fileRows = [s \in SnapIds |-> 0]
    /\ issued = 0
    /\ build = NoBuild
    /\ outcome = NoOutcome
    /\ everReady = {}

CsIdle ==
    /\ fs \in {[path \in Paths |-> ABSENT]}
    /\ cs = [c \in CsIds |-> NoRow]
    /\ patches = [c \in CsIds |-> <<>>]
    /\ req = [r \in Reqs |-> IdleReq]
    /\ running = NONE
    /\ response = NoResponse
    /\ base = [c \in CsIds |-> NoBase]
    /\ wasApplied = {}
    /\ events = 0

Next ==
    \/ \E path \in Paths, content \in ExternalContents : ExternalWrite(path, content)
    \/ \E c \in CsIds, request \in PatchRequests : CreateChangeset(c, request)
    \/ \E r \in Reqs, c \in CsIds : ApplyBegin(r, c)
    \/ \E r \in Reqs : ApplyPreflight(r)
    \/ \E r \in Reqs : ApplyWriteOk(r)
    \/ \E r \in Reqs : ApplyWriteFail(r)
    \/ \E r \in Reqs : ApplyWritesDone(r)
    \/ \E r \in Reqs : ApplyReverseOk(r)
    \/ \E r \in Reqs : ApplyReverseFail(r)
    \/ \E r \in Reqs : ApplyRaise(r)
    \/ \E r \in Reqs : ApplyCommit(r)
    \/ \E r \in Reqs, c \in CsIds : RollbackBegin(r, c)
    \/ \E r \in Reqs : RollbackEnter(r)
    \/ \E r \in Reqs : RollbackStep(r)
    \/ \E r \in Reqs : RollbackFail(r)
    \/ \E r \in Reqs : RollbackDone(r)
    \/ \E r \in Reqs : RollbackCommit(r)
    \/ \E r \in Reqs, c \in CsIds : CommitBegin(r, c)
    \/ \E r \in Reqs : CommitGit(r)
    \/ \E r \in Reqs : CommitCommit(r)
    \/ \E r \in Reqs, c \in CsIds : DeleteBegin(r, c)
    \/ \E r \in Reqs : DeleteCommit(r)

\* Create, Apply and Rollback requests served one at a time, each handler
\* to its end, with no other write to the tree and no failing write.
NextSeq ==
    \/ \E c \in CsIds, request \in PatchRequests : Free(1) /\ CreateChangeset(c, request)
    \/ \E c \in CsIds : ApplyBegin(1, c)
    \/ ApplyPreflight(1)
    \/ ApplyWriteOk(1)
    \/ ApplyWritesDone(1)
    \/ ApplyCommit(1)
    \/ \E c \in CsIds : RollbackBegin(1, c)
    \/ RollbackEnter(1)
    \/ RollbackStep(1)
    \/ RollbackDone(1)
    \/ RollbackCommit(1)

\* The scans of the project whose tree the changesets patch.
ProjectScans == {<<>>, <<TextFile>>}

\* Applies and builds of one project in one event loop: a build takes its
\* steps while no handler holds the loop.
NextProject ==
    \/ \E c \in CsIds, request \in PatchRequests : CreateChangeset(c, request)
    \/ \E r \in Reqs, c \in CsIds : ApplyBegin(r, c)
    \/ \E r \in Reqs : ApplyPreflight(r)
    \/ \E r \in Reqs : ApplyWriteOk(r)
    \/ \E r \in Reqs : ApplyWritesDone(r)
    \/ \E r \in Reqs : ApplyCommit(r)
    \/ \E callback \in BOOLEAN : running = NONE /\ IndexStart(callback)
    \/ running = NONE /\ Report5
    \/ \E files \in ProjectScans : running = NONE /\ Scan(files)
    \/ running = NONE /\ ProcessFile
    \/ running = NONE /\ FinalizeSnapshot
    \/ running = NONE /\ Report100

NextBuild ==
    \/ CreateSnapshot
    \/ \E callback \in BOOLEAN : IndexStart(callback)
    \/ Report5
    \/ Report5Raise
    \/ \E files \in ScanResults : Scan(files)
    \/ \E len \in MessageLengths : ScanRaise(len)
    \/ ProcessFile
    \/ \E len \in MessageLengths, flush \in BOOLEAN : ProcessFileRaise(len, flush)
    \/ \E len \in MessageLengths : ParseRaise(len)
    \/ FinalizeSnapshot
    \/ \E len \in MessageLengths : FinalizeRaise(len)
    \/ Report100
    \/ \E len \in MessageLengths : Report100Raise(len)
    \/ HandleException
    \/ HandleExceptionRaise

\* The changeset handlers over one project's working tree.
Init == CsInit /\ BuildInit0 /\ AnalysisIdle
Spec == Init /\ [][Next]_vars

\* The snapshot builds of one project.
InitBuild == CsIdle /\ BuildInit /\ AnalysisIdle
SpecBuild == InitBuild /\ [][NextBuild]_vars

\* The steps of a build that has started: the event loop resumes a
\* coroutine that is ready to run.
BuildStep ==
    \/ Report5
    \/ \E files \in ScanResults : Scan(files)
    \/ ProcessFile
    \/ \E len \in MessageLengths : ParseRaise(len)
    \/ FinalizeSnapshot
    \/ Report100
    \/ HandleException
    \/ HandleExceptionRaise

\* The snapshot builds, every started build running on to its end.  No
\* request is bound to arrive, and no step is bound to raise.
SpecBuildLive == InitBuild /\ [][NextBuild]_vars /\ WF_vars(BuildStep)

\* A build of a tree, a change to it and compute_diff over both.
InitDiff == CsIdle /\ BuildInit0 /\ DiffInit /\ ImpactIdle /\ CopyIdle
SpecDiff == InitDiff /\ [][NextDiff]_vars

\* The changeset handlers, one request at a time.
InitSeq ==
    /\ fs \in InitTrees
    /\ cs = [c \in CsIds |-> NoRow]
    /\ patches = [c \in CsIds |-> <<>>]
    /\ req = [r \in Reqs |-> IdleReq]
    /\ running = NONE
    /\ response = NoResponse
    /\ base = [c \in CsIds |-> NoBase]
    /\ wasApplied = {}
    /\ events = MaxEvents - SeqRequests
    /\ BuildInit0
    /\ AnalysisIdle
SpecSeq == InitSeq /\ [][NextSeq]_vars

\* The changeset handlers and the builds of one project.
InitProject == CsInit /\ BuildInit0 /\ AnalysisIdle
SpecProject == InitProject /\ [][NextProject]_vars

\* The impact analyses of one snapshot.
InitImpact == CsIdle /\ BuildInit0 /\ DiffIdle /\ ImpactInit /\ CopyIdle
SpecImpact == InitImpact /\ [][NextImpact]_vars

\* copy_unchanged_files over the File rows of the snapshots.
InitCopy == CsIdle /\ BuildInit0 /\ DiffIdle /\ ImpactIdle /\ CopyInit
SpecCopy == InitCopy /\ [][NextCopy]_vars

\* _calculate_risk applied to counts.
InitRisk == CsIdle /\ BuildInit0 /\ DiffIdle /\ RiskInit /\ CopyIdle
SpecRisk == InitRisk /\ [][NextRisk]_vars

(***************************************************************************)
(* Properties of the changeset handlers                                    *)
(***************************************************************************)
ThePatches(r) == patches[req[r].c]

\* A patch with a stored original whose file is gone, or was changed since
\* the Create and holds other bytes than that original.
Stale(tree, created, patch) ==
    /\ patch.original_content # NoText
    /\ \/ ~Exists(tree, patch.file_path)
       \/ /\ tree[patch.file_path] # created[patch.file_path]
          /\ tree[patch.file_path] # WriteText(patch.original_content)

StaleOnDisk(tree, c) ==
    \E i \in 1..Len(patches[c]) : Stale(tree, base[c].created, patches[c][i])

\* C1: when at Apply a patched file no longer exists, or was changed since
\* the Create and differs from the stored original_content, the request
\* fails, no file is written and the changeset row is left as it was.  The
\* failure asked for is the conflict; a request that fails on reading the
\* file is let pass here, so that a violation is an Apply that goes on to
\* write.
C1_ConflictWritesNothing ==
    [][\A r \in Reqs :
         (/\ req[r].op = "apply"
          /\ req[r].pc = "preflight"
          /\ req'[r] # req[r]
          /\ StaleOnDisk(fs, req[r].c))
         => (/\ response' # NoResponse
             /\ response'.op = "apply" /\ response'.c = req[r].c
             /\ response'.result \in {"conflict", "decode_error"}
             /\ req'[r] = IdleReq
             /\ fs' = fs
             /\ cs' = cs)]_vars

\* C2: once a changeset was applied and rolled back with no other write to
\* its files in between, every file it patches holds the bytes it held
\* before the Apply (or is absent as before), and the changeset is
\* ROLLED_BACK with rolled_back_at set.
C2_RoundTrip ==
    \A c \in CsIds :
      (cs[c].exists /\ cs[c].status = ROLLED_BACK /\ base[c].state = "set")
      => (/\ \A path \in PatchedPaths(c) : fs[path] = base[c].tree[path]
          /\ cs[c].rolled_back_at # NULL)

\* C3: while one Apply is between its conflict check and the end of its
\* writes, no other Apply request takes a step, and at most one Apply is in
\* that section.
InApplySection(r) == req[r].op = "apply" /\ req[r].pc \in {"write", "reverse"}

C3_ApplySerialized ==
    [][\A r1, r2 \in Reqs :
         (r1 # r2 /\ InApplySection(r1))
         => (/\ ~InApplySection(r2)
             /\ req[r2].op = "apply" => req'[r2] = req[r2])]_vars

C3_Witness ==
    \E r1, r2 \in Reqs :
      /\ r1 # r2
      /\ InApplySection(r1) /\ req[r1].k = 2
      /\ req[r2].op = "apply" /\ req[r2].pc = "preflight"

\* C4: Apply is accepted only on a PROPOSED changeset, Rollback only on an
\* APPLIED one, Delete only on one that is not APPLIED; a request in any
\* other status is answered with the state error and changes no file, no
\* row and no request in flight.
AllowedIn(op, status) ==
    CASE op = "apply" -> status = PROPOSED
      [] op = "rollback" -> status = APPLIED
      [] op = "delete" -> status # APPLIED
      [] OTHER -> TRUE

C4_StateErrors ==
    [][/\ \A r \in Reqs :
            (req[r].op = "none" /\ req'[r].op # "none")
            => AllowedIn(req'[r].op, cs[req'[r].c].status)
       /\ (response' # NoResponse /\ response'.result = "invalid_state"
             /\ response'.op \in {"apply", "rollback", "delete"})
          => (/\ ~AllowedIn(response'.op, cs[response'.c].status)
              /\ UNCHANGED <<fs, cs, patches, req>>)]_vars

C4_Witness ==
    /\ response = [op |-> "apply", c |-> 1, result |-> "invalid_state"]
    /\ cs[1].status = ROLLED_BACK

\* C5: the status of a changeset only moves PROPOSED -> APPLIED ->
\* ROLLED_BACK, a ROLLED_BACK or REJECTED changeset keeps its status, and a
\* ROLLED_BACK changeset was APPLIED before.
C5_StatusMoves ==
    [][\A c \in CsIds :
         /\ (cs[c].exists /\ cs'[c].exists /\ cs'[c].status # cs[c].status)
            => \/ cs[c].status = PROPOSED /\ cs'[c].status = APPLIED
               \/ cs[c].status = APPLIED /\ cs'[c].status = ROLLED_BACK
         /\ (cs'[c].exists /\ cs'[c].status = ROLLED_BACK) => c \in wasApplied']_vars

\* C6: a changeset whose status is not APPLIED has no applied_at.
C6_AppliedAtOnlyWhenApplied ==
    \A c \in CsIds :
      (cs[c].exists /\ cs[c].status # APPLIED) => cs[c].applied_at = NULL

\* The step in which an Apply that failed while writing raises, after n
\* patches were written.
ApplyRaises(r) ==
    /\ req[r].op = "apply"
    /\ req[r].pc = "reverse"
    /\ req'[r] = IdleReq
    /\ req[r].n >= 1

\* What such an Apply leaves of the request and the row.
FailsUnapplied(r) ==
    /\ response' = [op |-> "apply", c |-> req[r].c, result |-> "io_error"]
    /\ req[r].status = PROPOSED
    /\ cs' = cs

C8_SnapshotLifecycle ==
    [][/\ (build.id = 0 /\ build'.id # 0) => build'.obj.status = PENDING
       /\ \A s \in SnapIds :
            /\ (~snaps[s].exists /\ snaps'[s].exists) => snaps'[s].status = PENDING
            /\ (snaps[s].exists /\ snaps'[s].status # snaps[s].status)
               => \/ snaps[s].status = PENDING /\ snaps'[s].status = INDEXING
                  \/ snaps[s].status = INDEXING /\ snaps'[s].status \in {READY, FAILED}
            /\ (snaps[s].exists /\ snaps[s].status \in {READY, FAILED})
               => snaps'[s] = snaps[s]]_vars

\* C9: a READY snapshot has progress 100 and no error_message, a FAILED one
\* has an error_message, an INDEXING one has 0 <= progress < 100; for the
\* stored rows and for the object the build holds.
StatusConsistent(snapshot) ==
    /\ snapshot.status = READY
       => snapshot.progress = 100 /\ snapshot.error_message = NoMessage
    /\ snapshot.status = FAILED => snapshot.error_message # NoMessage
    /\ snapshot.status = INDEXING
       => 0 <= snapshot.progress /\ snapshot.progress < 100

C9_StatusConsistent ==
    /\ \A s \in SnapIds : snaps[s].exists => StatusConsistent(snaps[s])
    /\ build.id # 0 => StatusConsistent(build.obj)

C9_Witness ==
    /\ \E s \in SnapIds : snaps[s].status = READY /\ snaps[s].file_count > 0
    /\ \E s \in SnapIds : snaps[s].status = FAILED
    /\ outcome.step = "report100"

\* C10: when the scan, the persistence of a file or symbol, a batch commit
\* or the finalize of a build raised, the snapshot is stored FAILED with an
\* error_message of at most 1000 characters, was never stored READY, and
\* the call raised.
C10_FailureStored ==
    (outcome.result = "raised" /\ outcome.step \in {"scan", "files", "finalize"})
    => (/\ snaps[outcome.id].exists
        /\ snaps[outcome.id].status = FAILED
        /\ snaps[outcome.id].error_message # NoMessage
        /\ snaps[outcome.id].error_message <= ErrorLimit
        /\ outcome.id \notin everReady)

(***************************************************************************)
(* Properties of the scanner, the incremental diff and the impact analysis *)
(***************************************************************************)
BaseFiles == baseSnapshot.files
DiffOfBase == diff.done /\ diff.base

\* C11: compute_diff of a tree against the snapshot built from that tree,
\* nothing having changed in between, returns no added file, no modified
\* file and no deleted path, and unchanged_count is the number of File rows
\* of the snapshot.
C11_UnchangedTreeNoDiff ==
    (DiffOfBase /\ edited = NoEdit) =>
        /\ diff.added_files = {}
        /\ diff.modified_files = {}
        /\ diff.deleted_paths = {}
        /\ diff.unchanged_count = Len(BaseFiles)

\* An unchanged tree of a text file and a binary file was diffed.
C11_Witness ==
    /\ DiffOfBase
    /\ edited = NoEdit
    /\ Len(BaseFiles) = Cardinality(DiffPaths)
    /\ \E i \in DOMAIN BaseFiles : BaseFiles[i].sha256 = NoSha
    /\ \E i \in DOMAIN BaseFiles : BaseFiles[i].sha256 # NoSha
    /\ diff.unchanged_count = Cardinality(DiffPaths)

\* C12: after one byte of one file recorded in the base snapshot was
\* changed, text file or binary file, compute_diff reports exactly that
\* path as modified, nothing added, nothing deleted, and counts every other
\* file as unchanged.
C12_OneByteIsModified ==
    \A path \in DiffPaths :
        (DiffOfBase /\ edited = <<"byte", path>>) =>
            /\ diff.modified_files = {path}
            /\ diff.added_files = {}
            /\ diff.deleted_paths = {}
            /\ diff.unchanged_count = Len(BaseFiles) - 1

\* The paths of DiffPaths in lexicographic order.
PathBefore(a, b) == a = "a.py" /\ b = "b.png"

\* C17: the File rows of a build are in lexicographic order of their
\* relative paths, whatever order the directory was listed in.
C17_FilesInPathOrder ==
    baseSnapshot.built =>
        \A i, j \in DOMAIN BaseFiles :
            i < j => PathBefore(BaseFiles[i].path, BaseFiles[j].path)

ImpactedIds == {trace.impacted_symbols[i].id : i \in DOMAIN trace.impacted_symbols}

\* C13: every symbol of impacted_symbols has a distance between 1 and 3,
\* whatever the references (cycles included) and whatever was changed.
C13_DistanceWithinDepth ==
    trace.done =>
        \A i \in DOMAIN trace.impacted_symbols :
            /\ trace.impacted_symbols[i].distance >= 1
            /\ trace.impacted_symbols[i].distance <= 3

\* A trace over a chain of four references: the symbol three references
\* away is impacted, the one four references away is not.
C13_Witness ==
    /\ trace.done
    /\ changed = <<1>>
    /\ graph[1] > 0 /\ graph[2] > 0 /\ graph[3] > 0 /\ graph[4] > 0
    /\ graph[6] = 0
    /\ \E i \in DOMAIN trace.impacted_symbols :
           trace.impacted_symbols[i] = [id |-> 4, file_path |-> "f3", distance |-> 3]
    /\ MaxSymbols \notin ImpactedIds

\* The symbols with a walk of exactly k references to a changed symbol.
RECURSIVE Within(_, _, _)
Within(g, ids, k) ==
    IF k = 0 THEN ids
    ELSE LET nearer == Within(g, ids, k - 1)
         IN  {CandidateRefs[r].from : r \in {n \in DOMAIN CandidateRefs :
                                                g[n] > 0 /\ CandidateRefs[n].to \in nearer}}

\* The length of the shortest walk of 1 to 3 references from id to a
\* changed symbol, 0 if there is none.
Shortest(g, ids, id) ==
    IF id \in Within(g, ids, 1) THEN 1
    ELSE IF id \in Within(g, ids, 2) THEN 2
    ELSE IF id \in Within(g, ids, 3) THEN 3
    ELSE 0

\* C14: impacted_symbols holds exactly the symbols outside the changed set
\* that reach a changed symbol along 1 to 3 references, each of them once,
\* each with the length of its shortest such path as distance.
C14_ExactlyTheReachable ==
    trace.done =>
        /\ ImpactedIds = {id \in SymbolIds \ Range(changed) :
                             Shortest(graph, Range(changed), id) > 0}
        /\ \A i, j \in DOMAIN trace.impacted_symbols :
               trace.impacted_symbols[i].id = trace.impacted_symbols[j].id => i = j
        /\ \A i \in DOMAIN trace.impacted_symbols :
               trace.impacted_symbols[i].distance =
                   Shortest(graph, Range(changed), trace.impacted_symbols[i].id)

\* A trace over a cycle with a doubled row and a shortcut, one id given
\* twice: symbol 4 reaches the changed symbol along one reference and
\* along three.
C14_Witness ==
    /\ trace.done
    /\ changed = <<1, 1>>
    /\ graph[1] = MaxRefs /\ graph[2] > 0 /\ graph[3] > 0 /\ graph[5] > 0 /\ graph[6] > 0
    /\ ImpactedIds = {2, 3, 4}
    /\ \E i \in DOMAIN trace.impacted_symbols :
           trace.impacted_symbols[i].id = 4 /\ trace.impacted_symbols[i].distance = 1

\* C15: the risk level is low for at most 2 impacted files and at most 5
\* impacted symbols, else medium for at most 5 and 15, else high for at
\* most 10 and 30, else critical, whatever the counts of changed files and
\* changed symbols.
C15_RiskLevel ==
    risk # NoRisk =>
        risk = (IF counts.impacted_files <= 2 /\ counts.impacted_symbols <= 5 THEN "low"
                ELSE IF counts.impacted_files <= 5 /\ counts.impacted_symbols <= 15
                     THEN "medium"
                ELSE IF counts.impacted_files <= 10 /\ counts.impacted_symbols <= 30
                     THEN "high"
                ELSE "critical")

\* Many changed files and symbols, ten impacted files and thirty impacted
\* symbols: high.
C15_Witness ==
    /\ risk = "high"
    /\ counts.changed_files = 50
    /\ counts.changed_symbols = 50
    /\ counts.impacted_files = 10
    /\ counts.impacted_symbols = 30


(***************************************************************************)
(* Properties of the symbols, the progress and the failures of a build     *)
(***************************************************************************)
\* C16: the parent_id of every stored Symbol is null or the id of a stored
\* Symbol of the same snapshot.
C16_ParentInSnapshot ==
    \A row \in symbolRows :
        \/ row.parent_id = NoParent
        \/ \E parent \in symbolRows :
               /\ parent.id = row.parent_id
               /\ parent.snapshot_id = row.snapshot_id

\* Two snapshots hold methods linked to their classes, one of them a
\* method named as its class.
C16_Witness ==
    \E m, n \in symbolRows :
        /\ m.snapshot_id # n.snapshot_id
        /\ m.parent_id # NoParent /\ m.parent_id # m.id
        /\ n.parent_id = n.id

\* p <= q for fractions with positive denominators
Leq(p, q) == p[1] * q[2] <= q[1] * p[2]

\* C18: the progress values a build reports, 5, 10, 10 + (i/N)*80 for each
\* file in order and 100 on success, never decrease and lie in [0, 100].
C18_ProgressMonotone ==
    \A k \in DOMAIN progressLog :
        /\ Leq(<<0, 1>>, progressLog[k])
        /\ Leq(progressLog[k], <<100, 1>>)
        /\ k > 1 => Leq(progressLog[k - 1], progressLog[k])

\* A build of more files than a batch reported every value up to 100.
C18_Witness ==
    /\ Len(progressLog) = BatchSize + 4
    /\ progressLog[1] = <<5, 1>>
    /\ progressLog[Len(progressLog) - 1] = <<10 * (BatchSize + 1) + 80 * BatchSize, BatchSize + 1>>
    /\ progressLog[Len(progressLog)] = <<100, 1>>
    /\ outcome.result = "returned"

\* C19: when root_path is unset, names nothing, or names something that is
\* not a directory, no snapshot of a build of the project becomes READY.
C19_BadRootNeverReady == root # "dir" => everReady = {}

\* C20: a build in which the parse of a file failed still ends with its
\* snapshot READY.
C20_ParseFailureNotFatal ==
    outcome.step = "parse" => snaps[outcome.id].status = READY

(***************************************************************************)
(* Further properties of the changeset handlers                            *)
(***************************************************************************)
\* A patch of the changeset of r that stored no original although a file
\* is at its path now.
CreatesOverExisting(r) ==
    \E i \in 1..Len(ThePatches(r)) :
      /\ ThePatches(r)[i].original_content = NoText
      /\ Exists(fs, ThePatches(r)[i].file_path)

\* C26: when Apply runs its check and a file exists at the path of a patch
\* whose original_content is null, the request is answered with the
\* conflict, and neither the tree nor the row is changed.
C26_NullOriginalConflict ==
    [][\A r \in Reqs :
         (/\ req[r].op = "apply"
          /\ req[r].pc = "preflight"
          /\ req'[r] # req[r]
          /\ CreatesOverExisting(r))
         => (/\ response' = [op |-> "apply", c |-> req[r].c, result |-> "conflict"]
             /\ req'[r] = IdleReq
             /\ fs' = fs
             /\ cs' = cs)]_vars

\* C28: when an Apply that failed while writing raises and no reverse
\* write failed, every path of the tree holds what it held when that Apply
\* ran its check.  Stated for the first Apply of a changeset, whose tree at
\* the check is on record.
C28_FailedApplyRestoresTree ==
    [][\A r \in Reqs :
         (/\ ApplyRaises(r)
          /\ req[r].rfail = {}
          /\ base[req[r].c].state = "set")
         => \A path \in Paths : fs'[path] = base[req[r].c].tree[path]]_vars

\* C29: an Apply commits APPLIED and applied_at only on a changeset that is
\* stored PROPOSED with no applied_at, so that of the Apply requests for one
\* PROPOSED changeset at most one succeeds.
C29_OneApplySucceeds ==
    [][\A c \in CsIds :
         (response' = [op |-> "apply", c |-> c, result |-> "applied"])
         => (/\ cs[c].status = PROPOSED
             /\ cs[c].applied_at = NULL)]_vars

\* C23: the commit id of a changeset changes only in a Commit's step on a
\* row that is APPLIED and has no commit id, and so is stored once and never
\* replaced; a Commit that fails at git leaves every row as it was.
C23_CommitIdSetOnce ==
    [][/\ \A c \in CsIds :
            (/\ cs[c].exists /\ cs'[c].exists
             /\ response' = [op |-> "commit", c |-> c, result |-> "committed"])
            => (/\ cs[c].status = APPLIED
                /\ cs[c].git_commit_sha = NULL)
       /\ \A c \in CsIds :
            (cs'[c].exists /\ cs'[c].git_commit_sha # cs[c].git_commit_sha)
            => response' = [op |-> "commit", c |-> c, result |-> "committed"]
       /\ (response'.op = "commit" /\ response'.result \in {"not_git", "git_error"})
          => cs' = cs]_vars

\* The files of a tree hold bytes that write_text gives back as read_text
\* gave them.
ReadsBack(tree) ==
    \A path \in Paths :
      Exists(tree, path)
      => Decodable(tree[path]) /\ WriteText(ReadText(tree[path])) = tree[path]

\* C30: in a run of Create, Apply and Rollback requests served one at a
\* time with no other write, when no request is in flight and every
\* changeset that was applied is ROLLED_BACK, the tree is the tree before
\* the first Apply (the tree at the first Create, no request having written
\* before).  Stated for trees whose files read back as written.
C30_AllRolledBackRestoresTree ==
    (/\ \A r \in Reqs : Free(r)
     /\ wasApplied # {}
     /\ \A c \in wasApplied : cs[c].exists /\ cs[c].status = ROLLED_BACK
     /\ ReadsBack(base[1].created))
    => fs = base[1].created

(***************************************************************************)
(* Further properties of the snapshot builds                               *)
(***************************************************************************)
\* The positions before k of the symbols named as the parent of the k-th.
EarlierNamed(extracted, k) ==
    {j \in 1..(k - 1) : extracted[j].name = extracted[k].parent_name}

\* The parent the k-th symbol of a file is to get: the last earlier symbol
\* of the file with the name, or none.
ParentAsClaimed(snapshot_id, file_id, extracted, k) ==
    IF extracted[k].parent_name = NoName \/ EarlierNamed(extracted, k) = {}
    THEN NoParent
    ELSE <<snapshot_id, file_id,
           CHOOSE j \in EarlierNamed(extracted, k) :
               \A h \in EarlierNamed(extracted, k) : h <= j>>

\* C27: no stored symbol is its own parent, and the symbols the build is
\* about to persist for a file get as parent_id the id of the last earlier
\* symbol of the file named by parent_name, null when there is none.
C27_ParentIsEarlierSymbol ==
    /\ \A n \in symbolRows \cup build.symbols : n.parent_id # n.id
    /\ (build.pc = "files" /\ build.i < Len(build.scanned))
       => LET extracted == ParseOf(build.scanned[build.i + 1]).symbols
              stored == StoreSymbols(build.id, build.i + 1, extracted, 1, <<>>, {})
          IN  \A n \in stored :
                n.parent_id = ParentAsClaimed(build.id, build.i + 1, extracted, n.id[3])

\* The stored records of snapshot s: its row, the number of its File rows
\* and its Symbol rows.
RecordsOf(s, table, files, symbols) ==
    <<table[s], files[s], {n \in symbols : n.snapshot_id = s}>>

\* The snapshot a step of index_project works on.
BuiltBy(before, after) == IF before.pc = "idle" THEN after.id ELSE before.id

\* C21: a step of a build, however the build ends, leaves the records of
\* every snapshot but its own as they were (those of a READY snapshot of an
\* earlier build among them), and every Symbol row it stores carries its
\* own snapshot id.
C21_BuildWritesOwnSnapshotOnly ==
    [][build' # build
       => /\ \A s \in SnapIds :
               s # BuiltBy(build, build')
               => RecordsOf(s, snaps', fileRows', symbolRows')
                    = RecordsOf(s, snaps, fileRows, symbolRows)
          /\ \A n \in symbolRows' \ symbolRows :
               n.snapshot_id = BuiltBy(build, build')]_vars

\* A second build has stored File and Symbol rows of its own while the
\* snapshot of the first build is READY with rows.
C21_Witness ==
    /\ snaps[1].status = READY /\ fileRows[1] > 0
    /\ \E n \in symbolRows : n.snapshot_id = 1
    /\ build.id = 2
    /\ fileRows[2] > 0
    /\ \E n \in symbolRows : n.snapshot_id = 2

\* An Apply that passed its check and has not yet committed its status.
ApplyInProgress(r) ==
    req[r].op = "apply" /\ req[r].pc \in {"write", "reverse", "commit"}

\* C22: while an Apply is between its pre-flight check and the commit of
\* its status, no build of the project starts.
C22_NoBuildStartsDuringApply ==
    [][(\E r \in Reqs : ApplyInProgress(r))
       => ~(build.pc = "idle" /\ build'.pc # "idle")]_vars

\* The committed row of a snapshot is PENDING: create_snapshot made it.
IsPending(s) == snaps[s].exists /\ snaps[s].status = PENDING

\* C25: a snapshot that create_snapshot stored as PENDING is in time stored
\* as READY or FAILED.
C25_PendingIsBuilt ==
    \A s \in SnapIds : IsPending(s) ~> (snaps[s].status \in {READY, FAILED})

\* No step changes the row of a PENDING snapshot.
PendingRowIsKept ==
    [][\A s \in SnapIds : IsPending(s) => snaps'[s] = snaps[s]]_vars

(***************************************************************************)
(* Properties of copy_unchanged_files                                      *)
(***************************************************************************)
\* The columns the copy is to carry over.
SameColumns(n, f) ==
    /\ n.path = f.path /\ n.sha256 = f.sha256 /\ n.language = f.language
    /\ n.size_bytes = f.size_bytes /\ n.line_count = f.line_count
    /\ n.is_binary = f.is_binary /\ n.content = f.content

\* C24: a call of copy_unchanged_files that returns has created, for each
\* File of the source snapshot whose path is in the set, exactly one File
\* under the target with the same path, sha256, language, size_bytes,
\* line_count, is_binary and content, and no other row; it has changed or
\* deleted no row, so the rows of the source are as before; and it returns
\* the number of rows created.
C24_CarryForward ==
    [][(copyCall' # copyCall /\ ~copyCall'.raised)
       => LET call == copyCall'
              matching == {f \in fileTable :
                              f.snapshot_id = call.source /\ f.path \in call.paths}
              new == fileTable' \ fileTable
          IN  /\ \A f \in matching :
                   Cardinality({n \in new : n.snapshot_id = call.target
                                            /\ SameColumns(n, f)}) = 1
              /\ \A n \in new :
                   /\ n.snapshot_id = call.target
                   /\ \E f \in matching : SameColumns(n, f)
              /\ Cardinality(new) = Cardinality(matching)
              /\ fileTable \subseteq fileTable'
              /\ call.source # call.target
                 => {f \in fileTable' : f.snapshot_id = call.source}
                      = {f \in fileTable : f.snapshot_id = call.source}
              /\ call.returned = Cardinality(matching)]_vars

\* A row with cached content was copied to another snapshot, which had a
\* row already, while the other path of the set had no row in the source.
C24_Witness ==
    /\ copyCall.done /\ ~copyCall.raised
    /\ copyCall.source = 1 /\ copyCall.target = 2
    /\ copyCall.paths = DiffPaths
    /\ copyCall.returned = 1
    /\ \E n \in fileTable :
         /\ n.snapshot_id = 2 /\ n.id > 2 * MaxSnapshots
         /\ n.content # NoText
    /\ \E f \in fileTable : f.snapshot_id = 2 /\ f.id <= 2 * MaxSnapshots

====
